---- MODULE Spec2Model ----
(***************************************************************************)
(* Model of streamlit_app.py: the MLB defensive-profiles dashboard.        *)
(*                                                                         *)
(* The script is re-executed top to bottom on every widget interaction.    *)
(* One action of the model is one interaction followed by the complete     *)
(* re-execution of the script (load through the cache, team filter,        *)
(* player selection, best/worst, raw-vs-percentile table, leaderboard).    *)
(* An exception raised by a statement ends the run at that statement:      *)
(* what was rendered before it stays, nothing after it is rendered.        *)
(*                                                                         *)
(* The files enumerated exist, parse, and have the columns Player, Team,   *)
(* Inn and Age with Team, Inn and Age filled in; Inn and Age only flow     *)
(* into the profile's header text and are left out of the rows.            *)
(***************************************************************************)
EXTENDS Integers, Sequences, FiniteSets, TLC

VARIABLES
  files,        \* csv path -> contents of the file on disk
  cache,        \* st.cache_data store of load_df: csv path -> table, for
                \* the paths loaded so far
  season,       \* st.radio "Season"
  team,         \* st.selectbox "Filter players by team"
  player,       \* st.selectbox "Player"
  sort_metric,  \* st.selectbox "Sort by percentile metric"
  lb_team,      \* st.selectbox "Team filter (leaderboard)"
  top_n,        \* st.number_input "Top N"
  out           \* what the last run of the script computed and rendered

vars == <<files, cache, season, team, player, sort_metric, lb_team, top_n, out>>

----------------------------------------------------------------------------
(* Configuration *)

RAW_METRICS == <<"outs_above_average", "Rdrs", "Rtot", "DRP", "Fld%", "FRV">>

PCT_METRICS ==
  <<"outs_above_average_percentile", "Rdrs_percentile", "Rtot_percentile",
    "DRP_percentile", "Fld%_percentile", "FRV_percentile">>

LABEL ==
  ("outs_above_average" :> "OAA") @@
  ("outs_above_average_percentile" :> "OAA (pct)") @@
  ("Rdrs" :> "DRS") @@
  ("Rdrs_percentile" :> "DRS (pct)") @@
  ("Rtot" :> "Total Zone") @@
  ("Rtot_percentile" :> "Total Zone (pct)") @@
  ("DRP" :> "DRP") @@
  ("DRP_percentile" :> "DRP (pct)") @@
  ("Fld%" :> "Fielding %") @@
  ("Fld%_percentile" :> "Fielding % (pct)") @@
  ("FRV" :> "FRV") @@
  ("FRV_percentile" :> "FRV (pct)")

DATA_FILES ==
  ("2025" :> "defensive_metrics_25.csv") @@
  ("2024" :> "defensive_metrics_24.csv")

\* list(DATA_FILES.keys()): insertion order
SEASONS == <<"2025", "2024">>

\* the "(All)" entry put in front of both team selectboxes
ALL == "(All)"

\* the percentile scale: alt.Scale(domain=[0, 100])
PctMin == 0
PctMax == 100

TopNMin == 5
TopNMax == 100
TopNDefault == 20

----------------------------------------------------------------------------
(* Values *)

\* A missing cell of a numeric column (pandas NaN).  Percentiles are
\* PctMin..PctMax and the raw values enumerated below are non-negative.
NaN == -1

\* A missing cell of a text column (pandas NaN in an object column).
NA_STR == "<NA>"

\* A selectbox with no options returns None.
None == "<None>"

Range(s) == {s[i] : i \in 1..Len(s)}

notna(x) == x # NaN

\* Series.astype(str): a text cell is itself, a missing cell is the text "nan"
astype_str(x) == IF x = NA_STR THEN "nan" ELSE x

\* Elementwise == of a text column against a scalar: NaN equals nothing,
\* and no cell equals None.
pd_eq(cell, scalar) == cell # NA_STR /\ scalar # None /\ cell = scalar

\* Python's order of the strings that occur (code-point order:
\* "(" < digits < upper case < lower case)
StrOrder == <<"(All)", "2TM", "BOS", "NYY", "a", "b", "c", "nan">>

StrRank(s) == CHOOSE i \in 1..Len(StrOrder) : StrOrder[i] = s

RECURSIVE sorted(_)
\* sorted(S) of a collection of distinct strings
sorted(S) ==
  IF S = {} THEN <<>>
  ELSE LET lo == CHOOSE x \in S : \A y \in S : StrRank(x) <= StrRank(y)
       IN <<lo>> \o sorted(S \ {lo})

----------------------------------------------------------------------------
(* DataFrame.std(axis=1, ddof=0) *)

RECURSIVE Sum(_)
Sum(s) == IF s = <<>> THEN 0 ELSE Head(s) + Sum(Tail(s))

RECURSIVE Gcd(_, _)
Gcd(a, b) == IF b = 0 THEN a ELSE Gcd(b, a % b)

\* A standard deviation is kept exactly, as the reduced fraction <<n, d>> of
\* its square (the variance); sqrt is injective, so two deviations are
\* equal iff these are.  NaN is <<NaN, 1>>.
StdNaN == <<NaN, 1>>

Fraction(n, d) == LET g == Gcd(n, d) IN <<n \div g, d \div g>>

\* pandas nanops.nanvar/nanstd on one row: NaN cells are skipped (skipna),
\* count = number of cells left, mean = sum / count,
\* var = sum (x - mean)^2 / (count - ddof), NaN when count <= ddof.
\* With mean = S / count each deviation is (count*x - S) / count.
nanstd(cells, ddof) ==
  LET xs    == SelectSeq(cells, notna)
      count == Len(xs)
      S     == Sum(xs)
      sqdev == Sum([i \in 1..count |-> (count * xs[i] - S) * (count * xs[i] - S)])
  IN IF count = 0 \/ count - ddof <= 0 THEN StdNaN
     ELSE Fraction(sqdev, count * count * (count - ddof))

----------------------------------------------------------------------------
(* Tables *)

\* A file on disk is [columns |-> set of column names, rows |-> sequence of
\* records of cells, one cell per column].  A DataFrame is the same with
\* every row carrying its index label: [idx |-> label, v |-> cells].

\* pd.read_csv(csv_path): the file's columns and rows under a RangeIndex
read_csv(file) ==
  [columns |-> file.columns,
   rows    |-> [i \in 1..Len(file.rows) |-> [idx |-> i - 1, v |-> file.rows[i]]]]

\* [c for c in PCT_METRICS if c in df.columns]
existing_pct(df) == SelectSeq(PCT_METRICS, LAMBDA c : c \in df.columns)

\* (mutant) the sample standard deviation: ddof=1
row_std_sample(df, r) ==
  LET cols == existing_pct(df)
  IN nanstd([i \in 1..Len(cols) |-> r.v[cols[i]]], 1)

\* df[existing_pct].std(axis=1, ddof=0) for one row
row_std(df, r) ==
  LET cols == existing_pct(df)
  IN nanstd([i \in 1..Len(cols) |-> r.v[cols[i]]], 0)

\* load_df without the cache
load_df(file) ==
  LET df == read_csv(file)
  IN [columns |-> df.columns \cup {"disagreement_index"},
      rows    |-> [i \in 1..Len(df.rows) |->
                     [idx |-> df.rows[i].idx,
                      v   |-> ("disagreement_index" :> row_std(df, df.rows[i]))
                              @@ df.rows[i].v]]]

\* (mutant) no memoization: the file is read on every run
uncached_load_df(store, disk, csv_path) == load_df(disk[csv_path])

\* @st.cache_data: the entry of csv_path if there is one, else the result of
\* running load_df on the file as it is now.  Entries are never invalidated.
cached_load_df(store, disk, csv_path) ==
  IF csv_path \in DOMAIN store THEN store[csv_path] ELSE load_df(disk[csv_path])

cache_after(store, disk, csv_path) ==
  IF csv_path \in DOMAIN store THEN store
  ELSE (csv_path :> load_df(disk[csv_path])) @@ store

\* (mutant) "(All)" compared like any team
filter_by_team_only(df, t) ==
  [df EXCEPT !.rows = SelectSeq(df.rows, LAMBDA r : pd_eq(r.v["Team"], t))]

\* df if team == "(All)" else df[df["Team"] == team]
filter_by_team(df, t) ==
  IF t = ALL THEN df
  ELSE [df EXCEPT !.rows = SelectSeq(df.rows, LAMBDA r : pd_eq(r.v["Team"], t))]

\* ["(All)"] + sorted(df["Team"].unique().tolist())
team_options_of(df) == <<ALL>> \o sorted({r.v["Team"] : r \in Range(df.rows)})

\* sorted(candidates["Player"].astype(str).unique())
player_options_of(candidates) ==
  sorted({astype_str(r.v["Player"]) : r \in Range(candidates.rows)})

\* st.selectbox(label, options): a selectbox whose options are those of the
\* previous run keeps the value the user picked; one whose options changed
\* (or that was not rendered by the previous run) is a new widget and
\* returns its first option; with no options it returns None.
selectbox(options, prev_options, prev_value) ==
  IF options = <<>> THEN None
  ELSE IF options = prev_options /\ prev_value \in Range(options) THEN prev_value
  ELSE options[1]

\* candidates[candidates["Player"] == player]
player_rows(candidates, name) ==
  SelectSeq(candidates.rows, LAMBDA r : pd_eq(r.v["Player"], name))

\* (mutant) without the pd.notna test
player_pct_cols_existing(df, row) ==
  SelectSeq(PCT_METRICS, LAMBDA m : m \in df.columns)

\* [m for m in PCT_METRICS if m in df.columns and pd.notna(row[m])]
player_pct_cols_of(df, row) ==
  SelectSeq(PCT_METRICS, LAMBDA m : m \in df.columns /\ notna(row.v[m]))

RECURSIVE py_max(_, _, _)
\* max(seq, key=...): a left-to-right scan that replaces the running
\* maximum acc only by a strictly greater key
py_max(seq, key, acc) ==
  IF seq = <<>> THEN acc
  ELSE py_max(Tail(seq), key, IF key[Head(seq)] > key[acc] THEN Head(seq) ELSE acc)

RECURSIVE py_min(_, _, _)
\* min(seq, key=...): replaces the running minimum acc only by a strictly
\* smaller key
py_min(seq, key, acc) ==
  IF seq = <<>> THEN acc
  ELSE py_min(Tail(seq), key, IF key[Head(seq)] < key[acc] THEN Head(seq) ELSE acc)

RECURSIVE py_max_last(_, _, _)
\* (mutant) a scan in which a later equal key replaces the running maximum
py_max_last(seq, key, acc) ==
  IF seq = <<>> THEN acc
  ELSE py_max_last(Tail(seq), key,
                   IF key[Head(seq)] >= key[acc] THEN Head(seq) ELSE acc)

best_of_last(cols, row) == py_max_last(Tail(cols), row.v, Head(cols))

\* best = max(player_pct_cols, key=lambda m: row[m])
best_of(cols, row) == py_max(Tail(cols), row.v, Head(cols))

\* worst = min(player_pct_cols, key=lambda m: row[m])
worst_of(cols, row) == py_min(Tail(cols), row.v, Head(cols))

\* the Raw vs Percentiles table: row[m] raises KeyError for a column the
\* file does not have
raw_pct_ok(row) ==
  /\ \A i \in 1..Len(RAW_METRICS) : RAW_METRICS[i] \in DOMAIN row.v
  /\ \A i \in 1..Len(PCT_METRICS) : PCT_METRICS[i] \in DOMAIN row.v

raw_pct_table(row) ==
  [i \in 1..Len(RAW_METRICS) |->
     [Metric |-> LABEL[RAW_METRICS[i]],
      Raw |-> row.v[RAW_METRICS[i]],
      Percentile |-> row.v[PCT_METRICS[i]]]]

\* lb_pool[lb_pool[sort_metric].notna()]
drop_na(pool, col) ==
  [pool EXCEPT !.rows = SelectSeq(pool.rows, LAMBDA r : notna(r.v[col]))]

RECURSIVE sort_orders(_, _)
\* DataFrame.sort_values(col, ascending=False) with the default
\* kind="quicksort": rows in non-increasing order of col.  quicksort is not
\* a stable sort (pandas documents only mergesort and stable as stable), so
\* rows with equal keys may come out in any order, depending on the number
\* of rows and on the build of numpy: the result is one of these sequences.
\* R is the set of rows to order.
sort_orders(R, col) ==
  IF R = {} THEN {<<>>}
  ELSE UNION { { <<r>> \o s : s \in sort_orders(R \ {r}, col) } :
               r \in {x \in R : \A y \in R : y.v[col] <= x.v[col]} }

sort_values(pool, col) == sort_orders(Range(pool.rows), col)

\* (mutant) a cut one row too late
head_off_by_one(s, n) == SubSeq(s, 1, IF Len(s) < n + 1 THEN Len(s) ELSE n + 1)

\* .head(n)
head(s, n) == SubSeq(s, 1, IF Len(s) < n THEN Len(s) ELSE n)

\* [["Player", "Team", sort_metric, "disagreement_index"]] and
\* .rename(columns={sort_metric: LABEL[sort_metric]})
leader_row(r, col) ==
  [idx |-> r.idx,
   v   |-> ("Player" :> r.v["Player"]) @@ ("Team" :> r.v["Team"]) @@
           (LABEL[col] :> r.v[col]) @@
           ("disagreement_index" :> r.v["disagreement_index"])]

\* the possible values of leader
leaders(lb_pool, col, n) ==
  { [i \in 1..Len(head(s, n)) |-> leader_row(s[i], col)] :
      s \in sort_values(lb_pool, col) }

----------------------------------------------------------------------------
(* One run of the script *)

Unset == "<unset>"

\* What a run has computed and rendered before its first statement.  stage
\* is the statement the run ended at: "end", or the one that raised error.
\* The three leaderboard widgets hold their defaults until the run renders
\* them.
Blank ==
  [error           |-> "none",
   stage           |-> "load",
   df              |-> Unset,
   team_options    |-> <<>>,
   team            |-> ALL,
   candidates      |-> Unset,
   player_options  |-> <<>>,
   player          |-> None,
   row             |-> Unset,
   player_pct_cols |-> <<>>,
   best            |-> Unset,
   worst           |-> Unset,
   table           |-> <<>>,
   sort_metric     |-> PCT_METRICS[1],
   lb_options      |-> <<>>,
   lb_team         |-> ALL,
   top_n           |-> TopNDefault,
   lb_pool         |-> Unset,
   leader          |-> <<>>,
   shown           |-> <<>>]

\* An element the script renders: the call that made it, the section of
\* the page it is in, and its text
element(call, section, text) == [call |-> call, section |-> section, text |-> text]

exception_element == element("st.exception", "traceback", "")

\* The Story Splitter and the Global Percentiles chart
profile_elements(cols) ==
  IF cols # <<>>
  THEN << element("st.success", "profile", "Best metric"),
          element("st.warning", "profile", "Least favorable"),
          element("st.altair_chart", "chart", "") >>
  ELSE << element("st.info", "profile",
                  "No percentile data available for this player."),
          element("st.write", "chart",
                  "No percentile metrics to display for this player.") >>

raw_pct_elements == << element("st.table", "raw_vs_pct", "") >>

\* st.table(leader_styler), whatever leader holds
leader_elements(leader) == << element("st.table", "leaderboard", "") >>

\* The script from the team selectbox on, given the loaded table df and the
\* widget state w left by the previous run: the set of results it can
\* produce (one per outcome of the leaderboard sort).
script(df, w) ==
  LET team_options   == team_options_of(df)
      t              == selectbox(team_options, w.team_options, w.team)
      candidates     == filter_by_team(df, t)
      player_options == player_options_of(candidates)
      p              == selectbox(player_options, w.player_options, w.player)
      found          == player_rows(candidates, p)
      s1 == [Blank EXCEPT !.df = df, !.team_options = team_options, !.team = t,
                          !.candidates = candidates,
                          !.player_options = player_options, !.player = p]
  IN
  IF found = <<>>
  THEN \* .iloc[0] of an empty selection
       { [s1 EXCEPT !.error = "IndexError", !.stage = "row", !.shown = <<exception_element>>] }
  ELSE
  LET row  == found[1]
      cols == player_pct_cols_of(df, row)
      s2 == [s1 EXCEPT !.row = row, !.player_pct_cols = cols,
                       !.best  = IF cols # <<>> THEN best_of(cols, row) ELSE Unset,
                       !.worst = IF cols # <<>> THEN worst_of(cols, row) ELSE Unset,
                       !.shown = profile_elements(cols)]
  IN
  IF ~raw_pct_ok(row)
  THEN { [s2 EXCEPT !.error = "KeyError", !.stage = "table", !.shown = @ \o <<exception_element>>] }
  ELSE
  LET m          == IF w.lb_options # <<>> THEN w.sort_metric ELSE PCT_METRICS[1]
      lb_options == team_options_of(df)
      lt         == selectbox(lb_options, w.lb_options, w.lb_team)
      n          == IF w.lb_options # <<>> THEN w.top_n ELSE TopNDefault
      s3 == [s2 EXCEPT !.table = raw_pct_table(row),
                       !.shown = @ \o raw_pct_elements,
                       !.sort_metric = m, !.lb_options = lb_options,
                       !.lb_team = lt, !.top_n = n]
  IN
  IF m \notin df.columns
  THEN { [s3 EXCEPT !.error = "KeyError", !.stage = "lb_pool", !.shown = @ \o <<exception_element>>] }
  ELSE
  LET lb_pool == drop_na(filter_by_team(df, lt), m)
  IN { [s3 EXCEPT !.stage = "end", !.lb_pool = lb_pool, !.leader = L,
                  !.shown = @ \o leader_elements(L)] :
       L \in leaders(lb_pool, m, n) }

\* The widget state a run starts from
Widgets ==
  [team_options |-> out.team_options, team |-> team,
   player_options |-> out.player_options, player |-> player,
   lb_options |-> out.lb_options, sort_metric |-> sort_metric,
   lb_team |-> lb_team, top_n |-> top_n]

\* A complete run of the script for season s from widget state w
Run(s, w) ==
  \E r \in script(cached_load_df(cache, files, DATA_FILES[s]), w) :
    /\ cache' = cache_after(cache, files, DATA_FILES[s])
    /\ season' = s
    /\ team' = r.team
    /\ player' = r.player
    /\ sort_metric' = r.sort_metric
    /\ lb_team' = r.lb_team
    /\ top_n' = r.top_n
    /\ out' = r
    /\ UNCHANGED files

----------------------------------------------------------------------------
(* Interactions; each re-runs the script *)

SelectSeason(s) ==
  /\ s # season
  /\ Run(s, Widgets)

SelectTeam(t) ==
  /\ t # team
  /\ Run(season, [Widgets EXCEPT !.team = t])

SelectPlayer(p) ==
  /\ p # player
  /\ Run(season, [Widgets EXCEPT !.player = p])

\* The leaderboard widgets can be used only when the last run rendered them
SelectSortMetric(m) ==
  /\ out.lb_options # <<>>
  /\ m # sort_metric
  /\ Run(season, [Widgets EXCEPT !.sort_metric = m])

SelectLbTeam(t) ==
  /\ out.lb_options # <<>>
  /\ t # lb_team
  /\ Run(season, [Widgets EXCEPT !.lb_team = t])

SetTopN(n) ==
  /\ out.lb_options # <<>>
  /\ n # top_n
  /\ Run(season, [Widgets EXCEPT !.top_n = n])

\* The file of a season is replaced on disk (a data refresh); nothing in
\* the script watches the data files, so no run is triggered.
RewriteFile(path, f) ==
  /\ files[path] # f
  /\ files' = [files EXCEPT ![path] = f]
  /\ UNCHANGED <<cache, season, team, player, sort_metric, lb_team, top_n, out>>

\* The first run of a session: radio index=0, every widget new
FirstRun(disk) ==
  LET w == [team_options |-> <<>>, team |-> ALL, player_options |-> <<>>,
            player |-> None, lb_options |-> <<>>, sort_metric |-> PCT_METRICS[1],
            lb_team |-> ALL, top_n |-> TopNDefault]
  IN \E r \in script(load_df(disk[DATA_FILES[SEASONS[1]]]), w) :
       /\ files = disk
       /\ cache = cache_after(<<>>, disk, DATA_FILES[SEASONS[1]])
       /\ season = SEASONS[1]
       /\ team = r.team
       /\ player = r.player
       /\ sort_metric = r.sort_metric
       /\ lb_team = r.lb_team
       /\ top_n = r.top_n
       /\ out = r

----------------------------------------------------------------------------
(* Files enumerated *)

Paths == {DATA_FILES[s] : s \in Range(SEASONS)}

Index(seq, x) == CHOOSE i \in 1..Len(seq) : seq[i] = x

\* The raw value that goes with a percentile: missing exactly when the
\* percentile is
raw_of(pct) == IF pct = NaN THEN NaN ELSE pct \div 10

\* The names of the metric columns number P (raw and percentile)
metric_columns(P) == {RAW_METRICS[i] : i \in P} \cup {PCT_METRICS[i] : i \in P}

\* One CSV row: Player, Team and, for the metrics number P, the percentile
\* f[i] and its raw value
cells(p, t, P, f) ==
  ("Player" :> p) @@ ("Team" :> t) @@
  [c \in metric_columns(P) |->
     IF c \in Range(PCT_METRICS) THEN f[Index(PCT_METRICS, c)]
     ELSE raw_of(f[Index(RAW_METRICS, c)])]

AllMetrics == 1..Len(PCT_METRICS)

\* Number of steps the percentile scale 0..100 is cut into
RowLevels == 2

RowValues ==
  {NaN} \cup {PctMin + (k * (PctMax - PctMin)) \div RowLevels : k \in 0..RowLevels}

\* In a choice of cells, the mark of a metric whose columns the file lacks
Absent == NaN - 1

present(f) == {i \in DOMAIN f : f[i] # Absent}

\* Every one-player file: any subset of the six metric column pairs, any
\* percentile or a missing value in each column that is there
RowFiles ==
  { [columns |-> {"Player", "Team"} \cup metric_columns(present(f)),
     rows    |-> <<cells("a", "NYY", present(f), f)>>] :
    f \in [AllMetrics -> RowValues \cup {Absent}] }

----------------------------------------------------------------------------
(* Specification of the profile of one player: every one-player file, and
   the leaderboard's sort metric *)

InitRow == \E f \in RowFiles : FirstRun([path \in Paths |-> f])

NextRow == \E m \in Range(PCT_METRICS) : SelectSortMetric(m)

SpecRow == InitRow /\ [][NextRow]_vars

----------------------------------------------------------------------------
(* Specification of the leaderboard: files long enough for the Top N cut *)

\* Rows of a leaderboard file, and how many of them (the last ones) are
\* fixed; the first FreeRows vary
BoardRows == 7
TailRows == 4
FreeRows == BoardRows - TailRows

BoardTeams == {"NYY", "BOS"}

BoardValues == {NaN, PctMin, PctMax}

PlayerNames == <<"a", "b", "c">>

\* A row of a leaderboard file: percentile x for OAA, the percentile at the
\* same distance from the other end of the scale for DRS, no other metric
board_cells(i, t, x) ==
  cells(PlayerNames[((i - 1) % Len(PlayerNames)) + 1], t, AllMetrics,
        [k \in AllMetrics |->
           IF k = 1 THEN x
           ELSE IF k = 2 /\ x # NaN THEN PctMax - (x - PctMin)
           ELSE NaN])

\* FreeRows rows of any team and OAA percentile (or none), then NYY rows
\* with the distinct percentiles PctMin + 1, PctMin + 2, ...
BoardFiles ==
  { [columns |-> {"Player", "Team"} \cup metric_columns(AllMetrics),
     rows    |-> [i \in 1..BoardRows |->
                    IF i <= FreeRows THEN board_cells(i, h[i][1], h[i][2])
                    ELSE board_cells(i, "NYY", PctMin + (i - FreeRows))]] :
    h \in [1..FreeRows -> BoardTeams \X BoardValues] }

TopNChoices == {TopNMin, TopNDefault, TopNMax}

\* The sort metrics tried: the two with values and one without
BoardMetrics == {PCT_METRICS[1], PCT_METRICS[2], PCT_METRICS[Len(PCT_METRICS)]}

InitBoard == \E f \in BoardFiles : FirstRun([path \in Paths |-> f])

NextBoard ==
  \/ \E m \in BoardMetrics : SelectSortMetric(m)
  \/ \E t \in Range(out.lb_options) : SelectLbTeam(t)
  \/ \E n \in TopNChoices : SetTopN(n)

SpecBoard == InitBoard /\ [][NextBoard]_vars

----------------------------------------------------------------------------
(* Specification of a session: season, team and player selection *)

\* Longest file of the current season
SessRows == 2

SessPlayers == {"a", "b", NA_STR}

\* "(All)" is a text like any other in the Team column of a file
SessTeams == {"NYY", "BOS", ALL}

\* Row i of a session file: an OAA percentile that tells the rows apart
sess_cells(i, p, t) ==
  cells(p, t, AllMetrics, [k \in AllMetrics |-> IF k = 1 THEN PctMin + i ELSE NaN])

sess_file(n, h) ==
  [columns |-> {"Player", "Team"} \cup metric_columns(AllMetrics),
   rows    |-> [i \in 1..n |-> sess_cells(i, h[i][1], h[i][2])]]

\* Every file of 1..SessRows rows
SessFiles ==
  { sess_file(n, h) :
      n \in 1..SessRows, h \in [1..SessRows -> SessPlayers \X SessTeams] }

\* The one-row files of player "b", for the other season
OtherSeasonFiles ==
  { sess_file(1, h) : h \in [1..1 -> {"b"} \X SessTeams] }

Init ==
  \E f \in SessFiles, g \in OtherSeasonFiles :
    FirstRun((DATA_FILES[SEASONS[1]] :> f) @@ (DATA_FILES[SEASONS[2]] :> g))

Next ==
  \/ \E s \in Range(SEASONS) : SelectSeason(s)
  \/ \E t \in Range(out.team_options) : SelectTeam(t)
  \/ \E p \in Range(out.player_options) : SelectPlayer(p)
  \/ \E t \in Range(out.lb_options) : SelectLbTeam(t)

Spec == Init /\ [][Next]_vars

----------------------------------------------------------------------------
(* Specification of the cache: seasons selected while files are replaced *)

\* One-row files that differ in their percentiles
CacheFiles ==
  { [columns |-> {"Player", "Team"} \cup metric_columns(AllMetrics),
     rows    |-> <<cells("a", "NYY", AllMetrics,
                         [k \in AllMetrics |->
                            IF k = 1 THEN x ELSE IF k = 2 THEN y ELSE NaN])>>] :
    x \in {PctMin, PctMax}, y \in {NaN, PctMax} }

InitCache == \E f, g \in CacheFiles :
  FirstRun((DATA_FILES[SEASONS[1]] :> f) @@ (DATA_FILES[SEASONS[2]] :> g))

NextCache ==
  \/ \E s \in Range(SEASONS) : SelectSeason(s)
  \/ \E t \in Range(out.team_options) : SelectTeam(t)
  \/ \E m \in Range(PCT_METRICS) : SelectSortMetric(m)
  \/ \E path \in Paths, f \in CacheFiles : RewriteFile(path, f)

SpecCache == InitCache /\ [][NextCache]_vars

----------------------------------------------------------------------------
(* Properties of one player's profile *)

RECURSIVE SumOver(_, _)
\* The sum of g[i] over the finite set I
SumOver(I, g) ==
  IF I = {} THEN 0
  ELSE LET i == CHOOSE j \in I : TRUE IN g[i] + SumOver(I \ {i}, g)

\* The percentile columns that the table has and that are non-null in row r
NonNullPct(df, r) ==
  {c \in Range(PCT_METRICS) : c \in df.columns /\ r.v[c] # NaN}

\* Whether the deviation di (a fraction of its square) is the population
\* standard deviation of row r's cells in the columns I:
\* variance = (N * sum x^2 - (sum x)^2) / N^2
IsPopulationStd(di, r, I) ==
  LET N  == Cardinality(I)
      S  == SumOver(I, r.v)
      Q  == SumOver(I, [c \in I |-> r.v[c] * r.v[c]])
  IN /\ di[2] > 0
     /\ di[1] * N * N = di[2] * (N * Q - S * S)

\* C1: in every row of the loaded table disagreement_index is the population
\* standard deviation (divide by N) of the percentile columns that exist and
\* are non-null in the row; it is 0 with one such column and null with none.
C1_DisagreementIndex ==
  \A r \in Range(out.df.rows) :
    LET I  == NonNullPct(out.df, r)
        di == r.v["disagreement_index"]
    IN /\ Cardinality(I) = 0 => di = StdNaN
       /\ Cardinality(I) = 1 => di = <<0, 1>>
       /\ Cardinality(I) >= 1 => IsPopulationStd(di, r, I)

\* A row with three differing percentiles, a null one and an absent column
C1_Witness ==
  \E r \in Range(out.df.rows) :
    /\ Cardinality(NonNullPct(out.df, r)) = 3
    /\ \E c \in Range(PCT_METRICS) : c \in out.df.columns /\ r.v[c] = NaN
    /\ \E c \in Range(PCT_METRICS) : c \notin out.df.columns
    /\ r.v["disagreement_index"] \notin {StdNaN, <<0, 1>>}

RowSelected == out.stage # "row"

PoolComputed == out.stage = "end"

\* C5: player_pct_cols holds exactly the percentile metrics that are
\* non-null in the selected row, each once, in the order of PCT_METRICS; it
\* is empty exactly when the row has no non-null percentile.
C5_AvailableMetrics ==
  RowSelected =>
    LET cols == out.player_pct_cols
    IN /\ Range(cols) = NonNullPct(out.df, out.row)
       /\ \A a, b \in 1..Len(cols) :
            a < b => Index(PCT_METRICS, cols[a]) < Index(PCT_METRICS, cols[b])
       /\ (cols = <<>>) <=> (NonNullPct(out.df, out.row) = {})

\* A selected row with some, not all, percentiles non-null
C5_Witness ==
  /\ RowSelected
  /\ Len(out.player_pct_cols) = 3
  /\ out.player_pct_cols[1] # PCT_METRICS[1]
  /\ \E c \in Range(PCT_METRICS) : c \in out.df.columns /\ out.row.v[c] = NaN

CanonicalFirst(m, ties) ==
  \A c \in ties : Index(PCT_METRICS, m) <= Index(PCT_METRICS, c)

\* C4: with at least one non-null percentile, best has the maximum and
\* worst the minimum percentile among the available metrics, both are
\* available metrics, and among tied metrics the first of PCT_METRICS is
\* chosen; six equal percentiles give best = worst = the first metric.
C4_BestWorst ==
  (RowSelected /\ out.player_pct_cols # <<>>) =>
    LET A == Range(out.player_pct_cols)
        v == out.row.v
    IN /\ out.best \in A
       /\ out.worst \in A
       /\ \A c \in A : v[c] <= v[out.best] /\ v[out.worst] <= v[c]
       /\ CanonicalFirst(out.best, {c \in A : v[c] = v[out.best]})
       /\ CanonicalFirst(out.worst, {c \in A : v[c] = v[out.worst]})
       /\ (Len(out.player_pct_cols) = Len(PCT_METRICS)
           /\ \A c, d \in A : v[c] = v[d])
          => out.best = PCT_METRICS[1] /\ out.worst = PCT_METRICS[1]

\* A row whose maximum and whose minimum are each shared by two metrics,
\* neither of them the first metric of the row
C4_Witness ==
  /\ RowSelected
  /\ out.player_pct_cols # <<>>
  /\ out.best # out.worst
  /\ LET A == Range(out.player_pct_cols)
         v == out.row.v
     IN /\ Cardinality({c \in A : v[c] = v[out.best]}) = 2
        /\ Cardinality({c \in A : v[c] = v[out.worst]}) = 2
        /\ out.best # out.player_pct_cols[1]
        /\ out.worst # out.player_pct_cols[1]

\* Six equal percentiles
C4_WitnessAllEqual ==
  /\ RowSelected
  /\ Len(out.player_pct_cols) = Len(PCT_METRICS)
  /\ \A c \in Range(PCT_METRICS) : out.row.v[c] = out.row.v[PCT_METRICS[1]]
  /\ out.best = PCT_METRICS[1]

LacksMetricColumn ==
  \E c \in Range(RAW_METRICS) \cup Range(PCT_METRICS) : c \notin out.df.columns

\* C7: when the file lacks one or more of the twelve metric columns, the
\* run (load, player selection, best/worst, raw-vs-percentile table,
\* leaderboard) completes without an error.
C7_MissingColumnsTolerated ==
  LacksMetricColumn => out.error = "none"

IsMessage(e) == e.call \in {"st.info", "st.write", "st.warning", "st.error"}

\* C8: with no non-null percentile for the selected player best/worst is not
\* evaluated and a no-percentile-data message is shown; with an empty
\* leaderboard pool the leaderboard is empty, the run completes without an
\* error and a no-data message is shown in the leaderboard section.
C8_EmptyStatesExplained ==
  /\ (RowSelected /\ out.player_pct_cols = <<>>) =>
       /\ out.best = Unset /\ out.worst = Unset
       /\ \E i \in 1..Len(out.shown) :
            IsMessage(out.shown[i]) /\ out.shown[i].section = "profile"
  /\ (PoolComputed /\ out.lb_pool.rows = <<>>) =>
       /\ out.leader = <<>>
       /\ out.error = "none"
       /\ \E i \in 1..Len(out.shown) :
            IsMessage(out.shown[i]) /\ out.shown[i].section = "leaderboard"

----------------------------------------------------------------------------
(* Properties of the leaderboard *)

PassesTeamFilter(r, t) == t = ALL \/ r.v["Team"] = t

\* The rows of the loaded table that pass the leaderboard's team filter and
\* have a value of the sort metric
Eligible ==
  {r \in Range(out.df.rows) :
     PassesTeamFilter(r, out.lb_team) /\ r.v[out.sort_metric] # NaN}

\* The sort metric's value in row i of leader
LeaderValue(i) == out.leader[i].v[LABEL[out.sort_metric]]

InLeader(r) == \E i \in 1..Len(out.leader) : out.leader[i].idx = r.idx

\* C2: the leaderboard has at most top_n rows (top_n in 5..100), each a row
\* that passes the team filter with a non-null sort metric, in
\* non-increasing order of it, and no eligible row left out has a strictly
\* greater value than a row in it.
C2_Leaderboard ==
  PoolComputed =>
    /\ out.top_n \in TopNMin..TopNMax
    /\ Len(out.leader) <= out.top_n
    /\ \A i \in 1..Len(out.leader) :
         \E r \in Eligible :
           /\ r.idx = out.leader[i].idx
           /\ r.v[out.sort_metric] = LeaderValue(i)
           /\ r.v["Team"] = out.leader[i].v["Team"]
    /\ \A i, j \in 1..Len(out.leader) : i < j => LeaderValue(i) >= LeaderValue(j)
    /\ \A r \in Eligible :
         ~InLeader(r) =>
           \A i \in 1..Len(out.leader) : r.v[out.sort_metric] <= LeaderValue(i)

\* The cut falls inside a team-filtered pool with a row of the other team
\* and a row without the metric left out, and the order is not the file's
C2_Witness ==
  /\ PoolComputed
  /\ out.lb_team # ALL
  /\ out.top_n = TopNMin
  /\ Len(out.leader) = out.top_n
  /\ Cardinality(Eligible) > out.top_n
  /\ \E r \in Range(out.df.rows) : ~PassesTeamFilter(r, out.lb_team)
  /\ \E i \in 1..Len(out.leader) - 1 : out.leader[i].idx > out.leader[i + 1].idx

\* C3: rows of the leaderboard that tie on the sort metric keep the order
\* they have in the filtered table, and when the cut falls inside a group
\* of tied rows the rows kept are the earliest of the group.
C3_StableTies ==
  PoolComputed =>
    /\ \A i, j \in 1..Len(out.leader) :
         (i < j /\ LeaderValue(i) = LeaderValue(j))
           => out.leader[i].idx < out.leader[j].idx
    /\ \A r \in Eligible :
         ~InLeader(r) =>
           \A i \in 1..Len(out.leader) :
             LeaderValue(i) = r.v[out.sort_metric] => out.leader[i].idx < r.idx

----------------------------------------------------------------------------
(* Properties of the team filter and of player resolution *)

TeamsOf(T) == {r.v["Team"] : r \in Range(T.rows)}

IdxOf(T) == {r.idx : r \in Range(T.rows)}

\* F holds exactly the rows of T whose team is z, in T's order
ExactlyTeam(F, T, z) ==
  /\ F.columns = T.columns
  /\ \A i \in 1..Len(F.rows) : F.rows[i] \in Range(T.rows) /\ F.rows[i].v["Team"] = z
  /\ \A r \in Range(T.rows) : r.v["Team"] = z => r \in Range(F.rows)
  /\ \A i, j \in 1..Len(F.rows) : i < j => F.rows[i].idx < F.rows[j].idx

\* The team filter over the teams Z of the loaded table: exact for each z,
\* the identity for "(All)", and the results over all teams of the table
\* make up the table; candidates is the filter's result for the team chosen
TeamFilterOver(Z) ==
  /\ \A z \in Z : ExactlyTeam(filter_by_team(out.df, z), out.df, z)
  /\ filter_by_team(out.df, ALL) = out.df
  /\ UNION {IdxOf(filter_by_team(out.df, z)) : z \in TeamsOf(out.df)} = IdxOf(out.df)
  /\ out.team \in Z => ExactlyTeam(out.candidates, out.df, out.team)
  /\ out.team = ALL => out.candidates = out.df

\* C6 (as claimed): for every team value z that occurs in the table the
\* team filter returns exactly the rows whose team is z, in the table's
\* order; with "(All)" it returns the table unchanged; the results over all
\* teams of the table reconstruct it.
C6_TeamFilter == TeamFilterOver(TeamsOf(out.df))

\* C6 (amended): the same for every team value z other than the text
\* "(All)"; filtering by "(All)" returns the whole table also when "(All)"
\* is the Team of some row.
C6_TeamFilterExceptSentinel == TeamFilterOver(TeamsOf(out.df) \ {ALL})

\* A team is chosen, a row of it is kept and a row of another team dropped
C6_Witness ==
  /\ out.team # ALL
  /\ Len(out.candidates.rows) >= 1
  /\ Len(out.candidates.rows) < Len(out.df.rows)
  /\ \A r \in Range(out.candidates.rows) : r.v["Team"] = out.team

\* C9: every name the player selector offers is the Player of at least one
\* row of the team-filtered table, and the row used is the first row of
\* that table whose Player is the selected name; also for a null Player.
C9_PlayerResolution ==
  /\ \A name \in Range(out.player_options) :
       \E r \in Range(out.candidates.rows) : r.v["Player"] = name
  /\ out.player_options # <<>> =>
       /\ RowSelected
       /\ \E i \in 1..Len(out.candidates.rows) :
            /\ out.row = out.candidates.rows[i]
            /\ out.candidates.rows[i].v["Player"] = out.player
            /\ \A j \in 1..(i - 1) : out.candidates.rows[j].v["Player"] # out.player

----------------------------------------------------------------------------
(* Properties of the cache *)

CurrentPath == DATA_FILES[season]

\* C10 (as claimed): whenever the script has run, the table in use is what
\* a fresh load of the selected season's file returns at that moment.
C10_TableIsFreshLoad ==
  [][files' = files => out'.df = load_df(files'[DATA_FILES[season']])]_vars

\* C10 (amended): the table in use is the cache entry of the selected
\* season; an entry is created by load_df on the file as it is at the first
\* load of its key and never changes afterwards, whatever is selected,
\* filtered or sorted later and whatever happens to the file.
C10_TableIsFirstLoad ==
  /\ [](CurrentPath \in DOMAIN cache /\ out.df = cache[CurrentPath])
  /\ [][\A path \in DOMAIN cache' :
          IF path \in DOMAIN cache THEN cache'[path] = cache[path]
          ELSE cache'[path] = load_df(files[path])]_vars

\* Both seasons have been loaded, the first is selected again, and its file
\* is no longer the one its entry was loaded from
C10_Witness ==
  /\ DOMAIN cache = Paths
  /\ season = SEASONS[1]
  /\ out.df = cache[CurrentPath]
  /\ out.df # load_df(files[CurrentPath])
  /\ out.sort_metric # PCT_METRICS[1]

====
